---- MODULE Spec2Model ----
(***************************************************************************)
(* Model of data_curate/utils.py: generate_subtopics and                   *)
(* generate_macro_topics, two bounded-retry wrappers around an external    *)
(* generator (NemotronGenerator).  The generator is opaque: each of its    *)
(* calls either returns a value or raises; both are chosen                 *)
(* nondeterministically.  The only interleaving points of an invocation    *)
(* are the two generator calls; everything the wrapper does between two    *)
(* generator calls (assignment, except clause, print, loop header, return) *)
(* is synchronous and belongs to the step of the call that precedes it.    *)
(***************************************************************************)
EXTENDS Integers, Sequences, FiniteSets

\* ------------------------------------------------------------------ bounds
MaxRetries == 2
MaxCount == 2
MaxListLen == 2

\* n_retries: int = 5 (both functions)
DefaultRetries == 5

\* ------------------------------------------------------------- value sets
Invocations == {1, 2}

Topics == {"a", "b"}

\* every list of strings convert_response_to_yaml_list may return
YamlLists == UNION {[1..n -> Topics] : n \in 0..MaxListLen}

\* response collections of the generator, consumed through [0]; an empty
\* collection makes llm_response[0] raise IndexError
Responses == {<<>>, <<"r1">>, <<"r2", "r1">>}

\* what a generator call may raise: the retried kind and another kind
Errors == {"YamlConversionError", "RuntimeError"}

\* every error that can be raised inside the try block
TryErrors == Errors \cup {"IndexError"}

Models == {"m1", "m2"}
ModelKwargs == {"kw1", "kw2"}
MacroTopics == {"t1"}
PromptTemplates == {"pt1"}
MacroPromptTemplates == {"pt1", "DEFAULT_MACRO_TOPICS_PROMPT_TEMPLATE"}
Counts == 1..MaxCount
RetryInputs == (-1..MaxRetries) \cup {DefaultRetries}

VARIABLES
  pc,            \* per invocation: "idle", "generate", "convert", "done", "raised"
  args,          \* per invocation: the caller's arguments
  attempt,       \* per invocation: index of the current iteration of the for loop
  topics,        \* per invocation: local subtopics / macro_topics
  llm_response,  \* per invocation: local llm_response, <<>> while unassigned
  ret,           \* per invocation: <<>> until return, then <<returned list>>
  raised,        \* per invocation: "none" or the error that left the call
  diagnostics,   \* per invocation: lines printed ("Hit: ..., Retrying...")
  genCalls,      \* history: generation requests made
  convCalls,     \* history: conversion calls made
  yamlErrors,    \* history: YamlConversionError raised by the generator
  otherErrors,   \* history: other errors raised inside the try block
  convYamlErrors, \* history: YamlConversionError raised by conversion calls
  convReturns,   \* history: conversion calls that returned a list
  converted,     \* history: <<>> or <<list of the successful conversion>>
  genArgs,       \* history: <<>> or <<keyword arguments of the last request>>
  convArgs       \* history: <<>> or <<keyword arguments of the last conversion>>

vars == <<pc, args, attempt, topics, llm_response, ret, raised, diagnostics,
          genCalls, convCalls, yamlErrors, otherErrors, convYamlErrors,
          convReturns, converted, genArgs, convArgs>>

\* ---------------------------------------------------------------- helpers

\* number of iterations of `for _ in range(n_retries)`
RangeLenOffByOne(n) == IF n >= 0 THEN n + 1 ELSE 0
RangeLen(n) == IF n > 0 THEN n ELSE 0

\* `subtopics = []` / `macro_topics = []`
EmptyList == <<>>

\* `except YamlConversionError`
CaughtAny(e) == TRUE
CaughtOtherKind(e) == e = "RuntimeError"
Caught(e) == e = "YamlConversionError"

\* print(f"Hit: {e}, Retrying..."): one more line on the diagnostic channel
HitRetryingSilent(d) == d
HitRetrying(d) == d + 1

\* `subtopics = generator.convert_response_to_yaml_list(...)`: the local is
\* bound to the converted list, not to the raw response
AssignResponse(response, yaml_list) == response
AssignConverted(response, yaml_list) == yaml_list

\* `return subtopics` / `return macro_topics`
ReturnEmpty(t) == <<>>
ReturnValue(t) == t

\* llm_response[0]: the first element of a non-empty response collection
LastElement(response) == response[Len(response)]
FirstElement(response) == response[1]

\* the loop variable of invocation i is a local of that invocation
slotShared(i) == 1
slot(i) == i

Init ==
  /\ pc = [i \in Invocations |-> "idle"]
  /\ args = [i \in Invocations |-> [fn |-> "none"]]
  /\ attempt = [i \in Invocations |-> 0]
  /\ topics = [i \in Invocations |-> <<>>]
  /\ llm_response = [i \in Invocations |-> <<>>]
  /\ ret = [i \in Invocations |-> <<>>]
  /\ raised = [i \in Invocations |-> "none"]
  /\ diagnostics = [i \in Invocations |-> 0]
  /\ genCalls = [i \in Invocations |-> 0]
  /\ convCalls = [i \in Invocations |-> 0]
  /\ yamlErrors = [i \in Invocations |-> 0]
  /\ otherErrors = [i \in Invocations |-> 0]
  /\ convYamlErrors = [i \in Invocations |-> 0]
  /\ convReturns = [i \in Invocations |-> 0]
  /\ converted = [i \in Invocations |-> <<>>]
  /\ genArgs = [i \in Invocations |-> <<>>]
  /\ convArgs = [i \in Invocations |-> <<>>]

\* function entry up to the first generator call: the local list is
\* initialised, the loop header is evaluated, and with an empty range the
\* function returns at once
Enter(i, a) ==
  /\ pc[i] = "idle"
  /\ args' = [args EXCEPT ![i] = a]
  /\ topics' = [topics EXCEPT ![i] = EmptyList]
  /\ attempt' = [attempt EXCEPT ![slot(i)] = 0]
  /\ IF 0 < RangeLen(a.n_retries)
       THEN /\ pc' = [pc EXCEPT ![i] = "generate"]
            /\ UNCHANGED ret
       ELSE /\ pc' = [pc EXCEPT ![i] = "done"]
            /\ ret' = [ret EXCEPT ![i] = <<ReturnValue(EmptyList)>>]
  /\ UNCHANGED <<llm_response, raised, diagnostics, genCalls, convCalls,
                 yamlErrors, otherErrors, convYamlErrors, convReturns,
                 converted, genArgs, convArgs>>

\* an error e raised inside the try block: the except clause, the print, the
\* loop header and, when the range is exhausted, the return
Handle(i, e) ==
  IF Caught(e)
    THEN /\ diagnostics' = [diagnostics EXCEPT ![i] = HitRetrying(@)]
         /\ attempt' = [attempt EXCEPT ![slot(i)] = @ + 1]
         /\ IF attempt[slot(i)] + 1 < RangeLen(args[i].n_retries)
              THEN /\ pc' = [pc EXCEPT ![i] = "generate"]
                   /\ UNCHANGED ret
              ELSE /\ pc' = [pc EXCEPT ![i] = "done"]
                   /\ ret' = [ret EXCEPT ![i] = <<ReturnValue(topics[i])>>]
         /\ UNCHANGED raised
    ELSE /\ pc' = [pc EXCEPT ![i] = "raised"]
         /\ raised' = [raised EXCEPT ![i] = e]
         /\ UNCHANGED <<diagnostics, attempt, ret>>

\* history of an error raised inside the try block
Raises(i, e) ==
  IF e = "YamlConversionError"
    THEN /\ yamlErrors' = [yamlErrors EXCEPT ![i] = @ + 1]
         /\ UNCHANGED otherErrors
    ELSE /\ otherErrors' = [otherErrors EXCEPT ![i] = @ + 1]
         /\ UNCHANGED yamlErrors

\* a generation request: it returns a response collection, of which the
\* first element is taken for the conversion call, or raises
Request(i, kwargs, responses, errors) ==
  /\ pc[i] = "generate"
  /\ genCalls' = [genCalls EXCEPT ![i] = @ + 1]
  /\ genArgs' = [genArgs EXCEPT ![i] = <<kwargs>>]
  /\ \/ \E r \in responses :
          /\ llm_response' = [llm_response EXCEPT ![i] = r]
          /\ IF Len(r) > 0
               THEN /\ pc' = [pc EXCEPT ![i] = "convert"]
                    /\ UNCHANGED <<attempt, ret, raised, diagnostics,
                                   yamlErrors, otherErrors>>
               ELSE /\ Raises(i, "IndexError")
                    /\ Handle(i, "IndexError")
     \/ \E e \in errors :
          /\ Raises(i, e)
          /\ Handle(i, e)
          /\ UNCHANGED llm_response
  /\ UNCHANGED <<args, topics, convCalls, convYamlErrors, convReturns,
                 converted, convArgs>>

\* a conversion call on the first element of the response: it returns a list
\* (the local is rebound, the loop is left by break and the list is
\* returned) or raises
Convert(i, kwargs, lists, errors) ==
  /\ pc[i] = "convert"
  /\ convCalls' = [convCalls EXCEPT ![i] = @ + 1]
  /\ convArgs' = [convArgs EXCEPT ![i] = <<kwargs>>]
  /\ \/ \E l \in lists :
          /\ topics' = [topics EXCEPT ![i] = AssignConverted(llm_response[i], l)]
          /\ converted' = [converted EXCEPT ![i] = <<l>>]
          /\ convReturns' = [convReturns EXCEPT ![i] = @ + 1]
          /\ pc' = [pc EXCEPT ![i] = "done"]
          /\ ret' = [ret EXCEPT ![i] =
                       <<ReturnValue(AssignConverted(llm_response[i], l))>>]
          /\ UNCHANGED <<attempt, raised, diagnostics, yamlErrors, otherErrors,
                         convYamlErrors>>
     \/ \E e \in errors :
          /\ Raises(i, e)
          /\ convYamlErrors' = [convYamlErrors EXCEPT ![i] =
                                  IF e = "YamlConversionError" THEN @ + 1 ELSE @]
          /\ Handle(i, e)
          /\ UNCHANGED <<topics, converted, convReturns>>
  /\ UNCHANGED <<args, llm_response, genCalls, genArgs>>

\* ------------------------------------------------------- generate_subtopics

generate_subtopics(i, model, model_kwargs, macro_topic, n_subtopics, prompt_template, n_retries) ==
  /\ i \in Invocations
  /\ Enter(i, [fn |-> "generate_subtopics", model |-> model,
               model_kwargs |-> model_kwargs, macro_topic |-> macro_topic,
               n_topics |-> n_subtopics, prompt_template |-> prompt_template,
               n_retries |-> n_retries])

generator_generate_subtopics(i, responses, errors) ==
  /\ args[i].fn = "generate_subtopics"
  /\ Request(i, [model |-> args[i].model,
                 model_kwargs |-> args[i].model_kwargs,
                 macro_topic |-> args[i].macro_topic,
                 n_subtopics |-> args[i].n_topics,
                 prompt_template |-> args[i].prompt_template],
             responses, errors)

\* keyword arguments of the conversion call of generate_subtopics:
\* llm_response=llm_response[0], model=model
SubtopicsConvertKwargsWithConfig(i) ==
  [llm_response |-> FirstElement(llm_response[i]), model |-> args[i].model,
   model_kwargs |-> args[i].model_kwargs]
SubtopicsConvertKwargs(i) ==
  [llm_response |-> FirstElement(llm_response[i]), model |-> args[i].model]

subtopics_convert_response_to_yaml_list(i, lists, errors) ==
  /\ args[i].fn = "generate_subtopics"
  /\ Convert(i, SubtopicsConvertKwargs(i), lists, errors)

\* ---------------------------------------------------- generate_macro_topics

generate_macro_topics(i, model, model_kwargs, n_macro_topics, prompt_template, n_retries) ==
  /\ i \in Invocations
  /\ Enter(i, [fn |-> "generate_macro_topics", model |-> model,
               model_kwargs |-> model_kwargs, n_topics |-> n_macro_topics,
               prompt_template |-> prompt_template, n_retries |-> n_retries])

generator_generate_macro_topics(i, responses, errors) ==
  /\ args[i].fn = "generate_macro_topics"
  /\ Request(i, [n_macro_topics |-> args[i].n_topics,
                 model |-> args[i].model,
                 model_kwargs |-> args[i].model_kwargs,
                 prompt_template |-> args[i].prompt_template],
             responses, errors)

\* keyword arguments of the conversion call of generate_macro_topics:
\* llm_response=llm_response[0], model=model, model_kwargs=model_kwargs
MacroTopicsConvertKwargs(i) ==
  [llm_response |-> FirstElement(llm_response[i]), model |-> args[i].model,
   model_kwargs |-> args[i].model_kwargs]

macro_topics_convert_response_to_yaml_list(i, lists, errors) ==
  /\ args[i].fn = "generate_macro_topics"
  /\ Convert(i, MacroTopicsConvertKwargs(i), lists, errors)

\* ------------------------------------------------------------ specifications

\* one invocation, every input
CallSubtopics ==
  \E model \in Models, model_kwargs \in ModelKwargs, macro_topic \in MacroTopics,
     n_subtopics \in Counts, prompt_template \in PromptTemplates,
     n_retries \in RetryInputs :
       generate_subtopics(1, model, model_kwargs, macro_topic, n_subtopics,
                          prompt_template, n_retries)

CallMacroTopics ==
  \E model \in Models, model_kwargs \in ModelKwargs, n_macro_topics \in Counts,
     prompt_template \in MacroPromptTemplates, n_retries \in RetryInputs :
       generate_macro_topics(1, model, model_kwargs, n_macro_topics,
                             prompt_template, n_retries)

RequestSubtopics == generator_generate_subtopics(1, Responses, Errors)

ConvertSubtopics == subtopics_convert_response_to_yaml_list(1, YamlLists, Errors)

RequestMacroTopics == generator_generate_macro_topics(1, Responses, Errors)

ConvertMacroTopics == macro_topics_convert_response_to_yaml_list(1, YamlLists, Errors)

Next ==
  \/ CallSubtopics
  \/ CallMacroTopics
  \/ RequestSubtopics
  \/ ConvertSubtopics
  \/ RequestMacroTopics
  \/ ConvertMacroTopics

Spec == Init /\ [][Next]_vars

\* two overlapping invocations whose generator calls interleave in any order;
\* each caller passes its own values
OverlapLists == {l \in YamlLists : Len(l) <= 1}
OverlapRetries == 0..MaxRetries
CallerModel(i) == IF i = 1 THEN "m1" ELSE "m2"
CallerKwargs(i) == IF i = 1 THEN "kw1" ELSE "kw2"

OverlapCallSubtopics ==
  \E i \in Invocations, n_retries \in OverlapRetries :
     generate_subtopics(i, CallerModel(i), CallerKwargs(i), "t1", 1, "pt1", n_retries)

OverlapCallMacroTopics ==
  \E i \in Invocations, n_retries \in OverlapRetries :
     generate_macro_topics(i, CallerModel(i), CallerKwargs(i), 1, "pt1", n_retries)

OverlapRequestSubtopics ==
  \E i \in Invocations : generator_generate_subtopics(i, Responses, Errors)

OverlapConvertSubtopics ==
  \E i \in Invocations : subtopics_convert_response_to_yaml_list(i, OverlapLists, Errors)

OverlapRequestMacroTopics ==
  \E i \in Invocations : generator_generate_macro_topics(i, Responses, Errors)

OverlapConvertMacroTopics ==
  \E i \in Invocations : macro_topics_convert_response_to_yaml_list(i, OverlapLists, Errors)

NextOverlap ==
  \/ OverlapCallSubtopics
  \/ OverlapCallMacroTopics
  \/ OverlapRequestSubtopics
  \/ OverlapConvertSubtopics
  \/ OverlapRequestMacroTopics
  \/ OverlapConvertMacroTopics

SpecOverlap == Init /\ [][NextOverlap]_vars

\* the generator calls are blocking calls that return or raise: a pending
\* call of an invocation is eventually completed (callers need never call)
GeneratorAnswers ==
  \A i \in Invocations :
    /\ WF_vars(generator_generate_subtopics(i, Responses, Errors))
    /\ WF_vars(subtopics_convert_response_to_yaml_list(i, OverlapLists, Errors))
    /\ WF_vars(generator_generate_macro_topics(i, Responses, Errors))
    /\ WF_vars(macro_topics_convert_response_to_yaml_list(i, OverlapLists, Errors))

SpecOverlapFair == SpecOverlap /\ GeneratorAnswers

\* ------------------------------------------------------------------ claims

Called(i) == pc[i] # "idle"
Returned(i) == pc[i] = "done"
Succeeded(i) == converted[i] # <<>>
max_retries(i) == args[i].n_retries

\* C1: if the generator raises a conversion error on exactly the first k
\* attempts (k < max_retries) and converts successfully on attempt k+1, the
\* call has returned exactly the list of that successful conversion and
\* exactly k diagnostics have been emitted.
C1_FailKThenSucceed ==
  \A i \in Invocations :
    Called(i) =>
      \A k \in 0..(max_retries(i) - 1) :
        (yamlErrors[i] = k /\ genCalls[i] = k + 1 /\ Succeeded(i))
          => /\ Returned(i)
             /\ ret[i] = converted[i]
             /\ diagnostics[i] = k

C1_Witness ==
  /\ Returned(1) /\ Succeeded(1)
  /\ max_retries(1) = DefaultRetries
  /\ yamlErrors[1] = 2 /\ genCalls[1] = 3 /\ convCalls[1] = 2
  /\ diagnostics[1] = 2
  /\ ret[1] = <<(<<"b", "a">>)>>

C3_OtherErrorPropagates ==
  [][\A i \in Invocations :
       /\ otherErrors'[i] > otherErrors[i]
            => /\ pc'[i] = "raised"
               /\ raised'[i] \in TryErrors \ {"YamlConversionError"}
               /\ ret'[i] = <<>>
               /\ diagnostics'[i] = diagnostics[i]
               /\ attempt'[i] = attempt[i]
       /\ otherErrors[i] > 0
            => /\ genCalls'[i] = genCalls[i]
               /\ convCalls'[i] = convCalls[i]
               /\ pc'[i] = "raised"
               /\ ret'[i] = <<>>]_vars

C3_Witness ==
  /\ pc[1] = "raised" /\ raised[1] = "RuntimeError"
  /\ otherErrors[1] = 1
  /\ max_retries(1) = DefaultRetries /\ genCalls[1] = 2 /\ convCalls[1] = 2
  /\ ret[1] = <<>>

\* C4 as stated: for every max_retries >= 0, when the conversion succeeds
\* whenever it is called, the result is the list parsed on the first attempt
\* and no diagnostic is emitted.
C4_Original ==
  \A i \in Invocations :
    (Returned(i) /\ max_retries(i) >= 0 /\ convYamlErrors[i] = 0)
      => /\ Succeeded(i)
         /\ genCalls[i] = 1 /\ convCalls[i] = 1
         /\ ret[i] = converted[i]
         /\ diagnostics[i] = 0

\* C4 amended: for every max_retries >= 1, when no generator call raises
\* (every request returns and the conversion succeeds whenever it is called)
\* the result is the list parsed on the first attempt and no diagnostic is
\* emitted; with max_retries = 0 there is no first attempt and the result is
\* the empty list, again without a diagnostic.
C4_AlwaysSucceeds ==
  \A i \in Invocations :
    (Returned(i) /\ max_retries(i) >= 0 /\ yamlErrors[i] = 0)
      => /\ diagnostics[i] = 0
         /\ IF max_retries(i) >= 1
              THEN /\ Succeeded(i)
                   /\ genCalls[i] = 1 /\ convCalls[i] = 1
                   /\ ret[i] = converted[i]
              ELSE /\ ~Succeeded(i)
                   /\ ret[i] = <<(<<>>)>>

C4_Witness ==
  /\ Returned(1) /\ max_retries(1) = 1 /\ yamlErrors[1] = 0
  /\ genCalls[1] = 1 /\ convCalls[1] = 1
  /\ ret[1] = <<(<<"a", "b">>)>> /\ diagnostics[1] = 0

\* C5: with max_retries = 0 the call returns the empty list with no
\* generation request, no conversion call and no diagnostic.
C5_ZeroRetries ==
  \A i \in Invocations :
    (Called(i) /\ max_retries(i) = 0)
      => /\ Returned(i)
         /\ ret[i] = <<(<<>>)>>
         /\ genCalls[i] = 0 /\ convCalls[i] = 0
         /\ diagnostics[i] = 0

C5_Witness ==
  /\ Returned(1) /\ max_retries(1) = 0
  /\ ret[1] = <<(<<>>)>> /\ genCalls[1] = 0 /\ diagnostics[1] = 0

\* C6 as stated: a returned list is empty only if every attempt failed with a
\* conversion error; a call in which a conversion succeeded never returns the
\* empty list.
C6_Original ==
  \A i \in Invocations :
    (Returned(i) /\ ret[i] = <<(<<>>)>>)
      => /\ ~Succeeded(i)
         /\ yamlErrors[i] = RangeLen(max_retries(i))

\* C6 amended: a returned list is empty only if every attempt failed with a
\* conversion error or the successful conversion itself produced the empty
\* list; a call in which a conversion produced a non-empty list never
\* returns the empty list.
C6_EmptyOnlyIfFailedOrEmptyParse ==
  \A i \in Invocations :
    (Returned(i) /\ ret[i] = <<(<<>>)>>)
      => \/ /\ ~Succeeded(i)
            /\ yamlErrors[i] = RangeLen(max_retries(i))
         \/ converted[i] = <<(<<>>)>>

C6_Witness ==
  /\ Returned(1) /\ ret[1] = <<(<<>>)>>
  /\ converted[1] = <<(<<>>)>>
  /\ max_retries(1) = 2 /\ yamlErrors[1] = 1 /\ convCalls[1] = 2

\* C7 as stated: a returned list has at most the requested number of topics,
\* whatever list the conversion produces.
C7_Original ==
  \A i \in Invocations :
    Returned(i) => Len(ret[i][1]) <= args[i].n_topics

\* C7 amended: a returned list has at most the requested number of topics
\* whenever the list produced by the successful conversion has at most that
\* many (or no conversion succeeded); the wrapper returns the converted list
\* whole, with the length the conversion gave it.
C7_LengthIsThatOfConversion ==
  \A i \in Invocations :
    Returned(i) =>
      /\ (Succeeded(i) => Len(converted[i][1]) <= args[i].n_topics)
           => Len(ret[i][1]) <= args[i].n_topics
      /\ Len(ret[i][1]) = (IF Succeeded(i) THEN Len(converted[i][1]) ELSE 0)

C7_Witness ==
  /\ Returned(1) /\ Succeeded(1)
  /\ args[1].n_topics = 1
  /\ Len(converted[1][1]) = 1 /\ Len(ret[1][1]) = 1

\* C8: when the conversion error is raised on all n_retries attempts
\* (n_retries >= 1), YamlConversionError is raised to the caller.
C8_RaisesAfterAllRetriesFail ==
  \A i \in Invocations :
    (Called(i) /\ max_retries(i) >= 1 /\ yamlErrors[i] = max_retries(i))
      => /\ pc[i] = "raised"
         /\ raised[i] = "YamlConversionError"

\* what invocation i owns: its position, locals, result and counters
Own(i) ==
  <<pc[i], args[i], attempt[i], topics[i], llm_response[i], ret[i], raised[i],
    diagnostics[i], genCalls[i], convCalls[i], yamlErrors[i], otherErrors[i],
    converted[i]>>

\* invocation j takes a step: it is entered or it makes a generator call
Acts(j) ==
  \/ pc[j] = "idle" /\ pc'[j] # "idle"
  \/ genCalls'[j] # genCalls[j]
  \/ convCalls'[j] # convCalls[j]

\* attempts, diagnostics and result of invocation i as a function of the
\* outcomes of its own generator calls
OwnOutcomes(i) ==
  Called(i) =>
    /\ attempt[i] = yamlErrors[i]
    /\ diagnostics[i] = yamlErrors[i]
    /\ genCalls[i] = yamlErrors[i] + otherErrors[i]
                       + (IF Succeeded(i) THEN 1 ELSE 0)
                       + (IF pc[i] = "convert" THEN 1 ELSE 0)
    /\ Returned(i) => ret[i] = (IF Succeeded(i) THEN converted[i] ELSE <<(<<>>)>>)
    /\ Returned(i) <=> (Succeeded(i) \/ yamlErrors[i] = RangeLen(max_retries(i)))

\* C9: when two invocations overlap and their generator calls interleave in
\* any order, a step of one invocation changes nothing the other owns, and
\* the attempts, the diagnostics and the returned list of each invocation
\* are determined by the outcomes of its own generator calls.
C9_OverlappingCallsIndependent ==
  [][/\ \A i, j \in Invocations : (i # j /\ Acts(j)) => Own(i)' = Own(i)
     /\ \A i \in Invocations : OwnOutcomes(i)']_vars

C9_Witness ==
  /\ pc[1] = "convert" /\ attempt[1] = 1 /\ diagnostics[1] = 1
  /\ pc[2] = "generate" /\ attempt[2] = 0 /\ diagnostics[2] = 0
  /\ max_retries(1) = max_retries(2)
  /\ args[1].fn # args[2].fn

\* the keyword arguments the generator received are the caller's values
CallerValues(i) ==
  /\ genArgs[i] # <<>> =>
       /\ genArgs[i][1].model = args[i].model
       /\ genArgs[i][1].model_kwargs = args[i].model_kwargs
       /\ genArgs[i][1].prompt_template = args[i].prompt_template
       /\ IF args[i].fn = "generate_subtopics"
            THEN /\ genArgs[i][1].n_subtopics = args[i].n_topics
                 /\ genArgs[i][1].macro_topic = args[i].macro_topic
            ELSE genArgs[i][1].n_macro_topics = args[i].n_topics
  /\ convArgs[i] # <<>> =>
       /\ convArgs[i][1].model = args[i].model
       /\ args[i].fn = "generate_macro_topics"
            => convArgs[i][1].model_kwargs = args[i].model_kwargs

\* C10: at every point of an invocation the number of diagnostics equals the
\* number of attempts that failed with a conversion error (none for a
\* successful attempt or one ended by another error); the arguments of the
\* caller are never changed, and every generator call receives them.
C10_DiagnosticsAndFrame ==
  [][\A i \in Invocations :
       /\ Called(i) => args'[i] = args[i]
       /\ Called(i)' =>
            /\ diagnostics'[i] = yamlErrors'[i]
            /\ diagnostics'[i] <= genCalls'[i]
            /\ CallerValues(i)']_vars

C10_Witness ==
  /\ pc[1] = "raised" /\ otherErrors[1] = 1
  /\ args[1].fn = "generate_macro_topics"
  /\ args[1].prompt_template = "DEFAULT_MACRO_TOPICS_PROMPT_TEMPLATE"
  /\ yamlErrors[1] = 2 /\ diagnostics[1] = 2 /\ genCalls[1] = 3
  /\ convCalls[1] = 2 /\ convYamlErrors[1] = 1
  /\ convArgs[1] = <<[llm_response |-> "r2", model |-> "m2", model_kwargs |-> "kw2"]>>

\* the states of an invocation
Attempting(i) == pc[i] \in {"generate", "convert"}
SucceededState(i) == pc[i] = "done" /\ Succeeded(i)
Exhausted(i) ==
  /\ pc[i] = "done" /\ ~Succeeded(i)
  /\ yamlErrors[i] = RangeLen(max_retries(i))
  /\ max_retries(i) >= 0 => yamlErrors[i] = max_retries(i)
Propagated(i) == pc[i] = "raised" /\ raised[i] # "none"
Terminal(i) == SucceededState(i) \/ Exhausted(i) \/ Propagated(i)

C12_CallCounts ==
  [][\A i \in Invocations :
       /\ (Called(i)' /\ max_retries(i)' >= 0) =>
            /\ genCalls'[i] <= max_retries(i)'
            /\ max_retries(i)' = DefaultRetries => genCalls'[i] <= 5
            /\ convCalls'[i] <= genCalls'[i]
            /\ convReturns'[i] <= 1
            /\ genCalls'[i] = attempt'[i]
                 + (IF pc'[i] \in {"convert", "raised"} \/ Succeeded(i)'
                      THEN 1 ELSE 0)
       /\ genCalls'[i] # genCalls[i] =>
            /\ genCalls'[i] = genCalls[i] + 1
            /\ pc[i] = "generate"
            /\ convCalls'[i] = convCalls[i]
       /\ convCalls'[i] # convCalls[i] =>
            /\ convCalls'[i] = convCalls[i] + 1
            /\ pc[i] = "convert" /\ pc'[i] # "convert"
            /\ genCalls'[i] = genCalls[i]
            /\ convArgs'[i][1].llm_response = llm_response[i][1]]_vars

C12_Witness ==
  /\ Returned(1) /\ Succeeded(1) /\ max_retries(1) = DefaultRetries
  /\ genCalls[1] = 5 /\ convCalls[1] = 3 /\ convReturns[1] = 1
  /\ llm_response[1] = <<"r2", "r1">>
  /\ convArgs[1][1].llm_response = "r2"

\* a generation request of invocation i raises YamlConversionError in this step
RequestRaisesYaml(i) ==
  /\ genCalls'[i] = genCalls[i] + 1
  /\ yamlErrors'[i] = yamlErrors[i] + 1

\* C13: a conversion error raised by the generation request itself is
\* handled like one raised by the conversion: the attempt counts as failed,
\* one diagnostic is emitted, the conversion is not called for that attempt,
\* nothing is raised to the caller, and the loop goes on to the next attempt
\* (or, after the last attempt, returns the list it has, which is empty).
C13_RequestConversionErrorRetried ==
  [][\A i \in Invocations :
       RequestRaisesYaml(i) =>
         /\ pc[i] = "generate"
         /\ diagnostics'[i] = diagnostics[i] + 1
         /\ attempt'[i] = attempt[i] + 1
         /\ convCalls'[i] = convCalls[i]
         /\ convYamlErrors'[i] = convYamlErrors[i]
         /\ raised'[i] = "none"
         /\ IF attempt[i] + 1 < max_retries(i)
              THEN pc'[i] = "generate" /\ ret'[i] = <<>>
              ELSE pc'[i] = "done" /\ ret'[i] = <<(<<>>)>>]_vars

C13_Witness ==
  /\ pc[1] = "generate" /\ max_retries(1) = 2
  /\ genCalls[1] = 1 /\ convCalls[1] = 0
  /\ yamlErrors[1] = 1 /\ diagnostics[1] = 1 /\ attempt[1] = 1

\* C14: every conversion call of generate_macro_topics receives the first
\* response element, the model and the caller's configuration mapping; every
\* conversion call of generate_subtopics receives only the first response
\* element and the model; in neither is the parent topic handed over.
C14_ConversionArguments ==
  \A i \in Invocations :
    convArgs[i] # <<>> =>
      /\ "macro_topic" \notin DOMAIN convArgs[i][1]
      /\ IF args[i].fn = "generate_macro_topics"
           THEN /\ DOMAIN convArgs[i][1] = {"llm_response", "model", "model_kwargs"}
                /\ convArgs[i][1].model_kwargs = args[i].model_kwargs
           ELSE /\ DOMAIN convArgs[i][1] = {"llm_response", "model"}
                /\ "macro_topic" \in DOMAIN args[i]
      /\ convArgs[i][1].model = args[i].model
      /\ convArgs[i][1].llm_response \in {"r1", "r2"}

C14_Witness ==
  /\ args[1].fn = "generate_subtopics" /\ args[1].macro_topic = "t1"
  /\ args[1].model_kwargs = "kw2"
  /\ convCalls[1] = 2
  /\ convArgs[1] = <<[llm_response |-> "r1", model |-> "m1"]>>

====
